---- MODULE Spec2Model ----
(***************************************************************************)
(* Paper-trading engine of coladapo/wealthincome (src/core/trading_engine.py) *)
(* as a state machine: the Portfolio ledger (cash, positions, orders,      *)
(* transaction history) and the TradingEngine operations place_order,      *)
(* cancel_order and update_market_prices (Spec); the same engine shared by *)
(* two sessions whose place_order calls interleave (SpecConc); and the     *)
(* ConfidenceScorer of src/wealthincome/confidence_scoring.py (SpecScore). *)
(*                                                                         *)
(* Numbers: quantities and prices are integers; avg_price, realized_pnl    *)
(* and unrealized_pnl, which the code obtains by division, are exact       *)
(* rationals <<numerator, denominator>> in lowest terms.                   *)
(* Optional values: None is <<>>, a present value x is <<x>>.              *)
(***************************************************************************)
EXTENDS Integers, Sequences, FiniteSets, TLC

VARIABLES
    portfolio,   \* TradingEngine.portfolio
    clock,       \* datetime.now(), one tick per call
    issued,      \* number of order ids handed out (uuid4 is modelled as a fresh number)
    last,        \* the last call: its arguments, the Order it built, how it ended
    form_only,   \* history: every call so far is one the trading form can make
    calls,       \* SpecConc: the place_order call each session is in
    scorer       \* SpecScore: the ConfidenceScorer call made and what it returned

vars == <<portfolio, clock, issued, last, form_only, calls, scorer>>

(***************************************************************************)
(* Bounds of the model                                                     *)
(***************************************************************************)
\* calls explored in one behaviour when the arguments are arbitrary
MaxCalls == 2
\* calls explored in one behaviour when every call is one the trading form can make
MaxFormCalls == 3
\* cash the engine is constructed with
InitialCash == 3

Symbols == {"A", "B"}
\* quantities a caller can pass: negative, zero, positive
Quantities == {-1, 0, 1, 2}
\* prices of the feed and of limit orders
Prices == {1, 2}

(***************************************************************************)
(* Optional values and Python truthiness                                   *)
(***************************************************************************)
None == <<>>
Some(x) == <<x>>

\* `x or y`, `not x` on an Optional[float]: None and 0 are falsy
Truthy(x) == x # None /\ x[1] # 0

(***************************************************************************)
(* Exact arithmetic for the float fields                                   *)
(***************************************************************************)
Abs(x) == IF x < 0 THEN -x ELSE x

RECURSIVE GCD(_, _)
GCD(a, b) == IF b = 0 THEN a ELSE GCD(b, a % b)

\* the rational n/d in lowest terms with a positive denominator (d # 0)
Rat(n, d) ==
    LET g == GCD(Abs(n), Abs(d))
        s == IF d < 0 THEN -1 ELSE 1
    IN  <<(s * n) \div g, (s * d) \div g>>

FromInt(n) == <<n, 1>>
RAdd(x, y) == Rat(x[1] * y[2] + y[1] * x[2], x[2] * y[2])
RSub(x, y) == Rat(x[1] * y[2] - y[1] * x[2], x[2] * y[2])
RMul(x, y) == Rat(x[1] * y[1], x[2] * y[2])
\* x / y for y # 0
RDiv(x, y) == Rat(x[1] * y[2], x[2] * y[1])

(***************************************************************************)
(* Enumerations and records                                                *)
(***************************************************************************)
OrderType == {"market", "limit", "stop", "stop_limit"}
OrderSide == {"buy", "sell"}
OrderStatus == {"pending", "filled", "cancelled", "rejected"}

\* Position built without its current_price argument: the dataclass default 0 stays
Position_unpriced(symbol, quantity, avg_price, current_price, now) ==
    [symbol |-> symbol, quantity |-> quantity, avg_price |-> avg_price,
     current_price |-> 0, unrealized_pnl |-> <<0, 1>>,
     realized_pnl |-> <<0, 1>>, created_at |-> now, updated_at |-> now]

\* Position(symbol, quantity, avg_price, current_price) with its defaults
Position(symbol, quantity, avg_price, current_price, now) ==
    [symbol |-> symbol, quantity |-> quantity, avg_price |-> avg_price,
     current_price |-> current_price, unrealized_pnl |-> FromInt(0),
     realized_pnl |-> FromInt(0), created_at |-> now, updated_at |-> now]

\* Order whose filled_quantity starts at the ordered quantity instead of 0
Order_prefilled(id, symbol, side, order_type, quantity, price, stop_price, now) ==
    [id |-> id, symbol |-> symbol, side |-> side, order_type |-> order_type,
     quantity |-> quantity, price |-> price, stop_price |-> stop_price,
     status |-> "pending", filled_quantity |-> quantity, filled_price |-> 0,
     created_at |-> now, filled_at |-> <<>>]

\* Order(id, symbol, side, order_type, quantity, price, stop_price) with its defaults
Order(id, symbol, side, order_type, quantity, price, stop_price, now) ==
    [id |-> id, symbol |-> symbol, side |-> side, order_type |-> order_type,
     quantity |-> quantity, price |-> price, stop_price |-> stop_price,
     status |-> "pending", filled_quantity |-> 0, filled_price |-> 0,
     created_at |-> now, filled_at |-> None]

\* Portfolio(cash): no positions, no orders, no transactions
Portfolio(cash) ==
    [cash |-> cash, positions |-> <<>>, orders |-> <<>>, transaction_history |-> <<>>]

(***************************************************************************)
(* The price feed: what one call of _get_current_price can return          *)
(***************************************************************************)
CurrentPrices == {None} \cup {Some(p) : p \in Prices}

\* limit prices a caller can pass: none, or a positive price
LimitPrices == {None} \cup {Some(p) : p \in Prices}

(***************************************************************************)
(* TradingEngine operations, as functions of the portfolio                 *)
(***************************************************************************)
\* the order object a handler is working on is the last one of portfolio.orders
SetOrder(pf, order) == [pf EXCEPT !.orders[Len(pf.orders)] = order]

\* _validate_order with the funds test off by one: an order costing exactly the cash is refused
_validate_order_strict(order, pf, pv) ==
    IF order.side = "buy"
    THEN LET reference_price == IF Truthy(order.price) THEN order.price ELSE pv
         IN  IF reference_price = None
             THEN "TypeError"
             ELSE IF order.quantity * reference_price[1] >= pf.cash
                  THEN "False"
                  ELSE "True"
    ELSE IF \/ order.symbol \notin DOMAIN pf.positions
            \/ pf.positions[order.symbol].quantity < order.quantity
         THEN "False"
         ELSE "True"

\* _validate_order: "True", "False", or "TypeError" when quantity * None is evaluated.
\* pv is what _get_current_price returns if it is called (order.price falsy, BUY).
_validate_order(order, pf, pv) ==
    IF order.side = "buy"
    THEN LET reference_price == IF Truthy(order.price) THEN order.price ELSE pv
         IN  IF reference_price = None
             THEN "TypeError"
             ELSE IF order.quantity * reference_price[1] > pf.cash
                  THEN "False"
                  ELSE "True"
    ELSE IF \/ order.symbol \notin DOMAIN pf.positions
            \/ pf.positions[order.symbol].quantity < order.quantity
         THEN "False"
         ELSE "True"

\* the reads of the price feed _validate_order makes
ValidateReads(order, pv) ==
    IF order.side = "buy" /\ ~Truthy(order.price) THEN <<pv>> ELSE <<>>

\* _execute_buy_order averaging the two prices without their quantities
_execute_buy_order_unweighted(pf, order, price, now) ==
    LET total_cost == order.quantity * price
        debited == [pf EXCEPT !.cash = @ - total_cost]
    IN  IF order.symbol \in DOMAIN pf.positions
        THEN LET position == pf.positions[order.symbol]
                 total_quantity == position.quantity + order.quantity
             IN  IF total_quantity = 0
                 THEN [portfolio |-> debited, raised |-> TRUE]
                 ELSE [portfolio |->
                          [debited EXCEPT !.positions[order.symbol] =
                              [position EXCEPT
                                  !.avg_price = RDiv(RAdd(position.avg_price, FromInt(price)),
                                                     FromInt(2)),
                                  !.quantity = total_quantity,
                                  !.current_price = price,
                                  !.updated_at = now]],
                       raised |-> FALSE]
        ELSE [portfolio |->
                 [debited EXCEPT !.positions =
                     (order.symbol :> Position(order.symbol, order.quantity,
                                               FromInt(price), price, now)) @@ @],
              raised |-> FALSE]

\* _execute_buy_order: the cash is debited first; the division by total_quantity
\* raises ZeroDivisionError when the new quantity is 0
_execute_buy_order(pf, order, price, now) ==
    LET total_cost == order.quantity * price
        debited == [pf EXCEPT !.cash = @ - total_cost]
    IN  IF order.symbol \in DOMAIN pf.positions
        THEN LET position == pf.positions[order.symbol]
                 total_quantity == position.quantity + order.quantity
                 total_cost_basis == RAdd(RMul(FromInt(position.quantity), position.avg_price),
                                          FromInt(order.quantity * price))
             IN  IF total_quantity = 0
                 THEN [portfolio |-> debited, raised |-> TRUE]
                 ELSE [portfolio |->
                          [debited EXCEPT !.positions[order.symbol] =
                              [position EXCEPT
                                  !.avg_price = RDiv(total_cost_basis, FromInt(total_quantity)),
                                  !.quantity = total_quantity,
                                  !.current_price = price,
                                  !.updated_at = now]],
                       raised |-> FALSE]
        ELSE [portfolio |->
                 [debited EXCEPT !.positions =
                     (order.symbol :> Position(order.symbol, order.quantity,
                                               FromInt(price), price, now)) @@ @],
              raised |-> FALSE]

\* _execute_sell_order that also moves avg_price to the sale price
_execute_sell_order_rebased(pf, order, price, now) ==
    LET position == pf.positions[order.symbol]
        realized_pnl == RMul(RSub(FromInt(price), position.avg_price), FromInt(order.quantity))
        total_proceeds == order.quantity * price
        sold == [position EXCEPT
                    !.realized_pnl = RAdd(@, realized_pnl),
                    !.quantity = @ - order.quantity,
                    !.avg_price = FromInt(price),
                    !.current_price = price,
                    !.updated_at = now]
    IN  [pf EXCEPT
            !.cash = @ + total_proceeds,
            !.positions = IF sold.quantity <= 0
                          THEN [s \in (DOMAIN @) \ {order.symbol} |-> @[s]]
                          ELSE [@ EXCEPT ![order.symbol] = sold]]

\* _execute_sell_order: the position exists (validated in the same call)
_execute_sell_order(pf, order, price, now) ==
    LET position == pf.positions[order.symbol]
        realized_pnl == RMul(RSub(FromInt(price), position.avg_price), FromInt(order.quantity))
        total_proceeds == order.quantity * price
        sold == [position EXCEPT
                    !.realized_pnl = RAdd(@, realized_pnl),
                    !.quantity = @ - order.quantity,
                    !.current_price = price,
                    !.updated_at = now]
    IN  [pf EXCEPT
            !.cash = @ + total_proceeds,
            !.positions = IF sold.quantity <= 0
                          THEN [s \in (DOMAIN @) \ {order.symbol} |-> @[s]]
                          ELSE [@ EXCEPT ![order.symbol] = sold]]

\* _record_transaction writing the price of one share as the total
_record_transaction_unit_total(pf, order, price, now) ==
    [pf EXCEPT !.transaction_history = Append(@,
        [id |-> order.id, timestamp |-> now, symbol |-> order.symbol,
         side |-> order.side, quantity |-> order.quantity, price |-> price,
         total |-> price, type |-> order.order_type])]

\* _record_transaction
_record_transaction(pf, order, price, now) ==
    [pf EXCEPT !.transaction_history = Append(@,
        [id |-> order.id, timestamp |-> now, symbol |-> order.symbol,
         side |-> order.side, quantity |-> order.quantity, price |-> price,
         total |-> order.quantity * price, type |-> order.order_type])]

\* _execute_order that fills the order and records it but leaves its status alone
_execute_order_unmarked(pf, pe, now) ==
    LET order == pf.orders[Len(pf.orders)]
    IN  IF ~Truthy(pe)
        THEN [portfolio |-> SetOrder(pf, [order EXCEPT !.status = "rejected"]),
              raised |-> FALSE]
        ELSE LET execution_price == pe[1]
                 buy == _execute_buy_order(pf, order, execution_price, now)
                 filled == [order EXCEPT !.filled_quantity = order.quantity,
                                         !.filled_price = execution_price,
                                         !.filled_at = Some(now)]
             IN  IF order.side = "buy" /\ buy.raised
                 THEN [portfolio |-> buy.portfolio, raised |-> TRUE]
                 ELSE LET executed == IF order.side = "buy"
                                      THEN buy.portfolio
                                      ELSE _execute_sell_order(pf, order, execution_price, now)
                      IN  [portfolio |-> _record_transaction(SetOrder(executed, filled),
                                                             filled, execution_price, now),
                           raised |-> FALSE]

\* _execute_order on the order just appended; pe is what _get_current_price returns
_execute_order(pf, pe, now) ==
    LET order == pf.orders[Len(pf.orders)]
    IN  IF ~Truthy(pe)
        THEN [portfolio |-> SetOrder(pf, [order EXCEPT !.status = "rejected"]),
              raised |-> FALSE]
        ELSE LET execution_price == pe[1]
                 buy == _execute_buy_order(pf, order, execution_price, now)
                 filled == [order EXCEPT !.status = "filled",
                                         !.filled_quantity = order.quantity,
                                         !.filled_price = execution_price,
                                         !.filled_at = Some(now)]
             IN  IF order.side = "buy" /\ buy.raised
                 THEN [portfolio |-> buy.portfolio, raised |-> TRUE]
                 ELSE LET executed == IF order.side = "buy"
                                      THEN buy.portfolio
                                      ELSE _execute_sell_order(pf, order, execution_price, now)
                      IN  [portfolio |-> _record_transaction(SetOrder(executed, filled),
                                                             filled, execution_price, now),
                           raised |-> FALSE]

\* place_order that debits a BUY before it validates it
place_order_debit_first(pf, order_id, now, symbol, side, quantity, order_type, price, stop_price, pv, pe) ==
    LET order == Order(order_id, symbol, side, order_type, quantity, price, stop_price, now)
        valid == _validate_order(order, pf, pv)
        vreads == ValidateReads(order, pv)
        placed == [pf EXCEPT !.orders = Append(@, order)]
        exec == _execute_order(placed, pe, now)
    IN  CASE valid = "TypeError" ->
               [portfolio |-> pf, order |-> order, raised |-> TRUE, reads |-> vreads]
          [] valid = "False" ->
               [portfolio |-> IF side = "buy"
                              THEN [pf EXCEPT !.cash = @ - quantity * (IF Truthy(price) THEN price ELSE pv)[1]]
                              ELSE pf,
                order |-> [order EXCEPT !.status = "rejected"],
                raised |-> FALSE, reads |-> vreads]
          [] valid = "True" /\ order_type = "market" ->
               [portfolio |-> exec.portfolio,
                order |-> exec.portfolio.orders[Len(exec.portfolio.orders)],
                raised |-> exec.raised, reads |-> vreads \o <<pe>>]
          [] OTHER ->
               [portfolio |-> placed, order |-> order, raised |-> FALSE, reads |-> vreads]

\* place_order: [portfolio, order, raised, reads]; order is the Order object as
\* the call leaves it, reads the values _get_current_price returned, in order
place_order(pf, order_id, now, symbol, side, quantity, order_type, price, stop_price, pv, pe) ==
    LET order == Order(order_id, symbol, side, order_type, quantity, price, stop_price, now)
        valid == _validate_order(order, pf, pv)
        vreads == ValidateReads(order, pv)
        placed == [pf EXCEPT !.orders = Append(@, order)]
        exec == _execute_order(placed, pe, now)
    IN  CASE valid = "TypeError" ->
               [portfolio |-> pf, order |-> order, raised |-> TRUE, reads |-> vreads]
          [] valid = "False" ->
               [portfolio |-> pf, order |-> [order EXCEPT !.status = "rejected"],
                raised |-> FALSE, reads |-> vreads]
          [] valid = "True" /\ order_type = "market" ->
               [portfolio |-> exec.portfolio,
                order |-> exec.portfolio.orders[Len(exec.portfolio.orders)],
                raised |-> exec.raised, reads |-> vreads \o <<pe>>]
          [] OTHER ->
               [portfolio |-> placed, order |-> order, raised |-> FALSE, reads |-> vreads]

\* the search of cancel_order without its test of the status
CancelIndexAnyStatus(pf, order_id) ==
    LET hits == {i \in 1 .. Len(pf.orders) : pf.orders[i].id = order_id}
    IN  IF hits = {} THEN 0 ELSE CHOOSE i \in hits : \A j \in hits : i <= j

\* cancel_order: the first order with that id that is PENDING, if any
CancelIndex(pf, order_id) ==
    LET hits == {i \in 1 .. Len(pf.orders) :
                    pf.orders[i].id = order_id /\ pf.orders[i].status = "pending"}
    IN  IF hits = {} THEN 0 ELSE CHOOSE i \in hits : \A j \in hits : i <= j

\* cancel_order answering True for any order it knows, PENDING or not
cancel_order_reports_known(pf, order_id) ==
    LET i == CancelIndex(pf, order_id)
    IN  IF i = 0
        THEN [portfolio |-> pf,
              ret |-> \E j \in 1 .. Len(pf.orders) : pf.orders[j].id = order_id]
        ELSE [portfolio |-> [pf EXCEPT !.orders[i].status = "cancelled"], ret |-> TRUE]

\* cancel_order: [portfolio, ret]
cancel_order(pf, order_id) ==
    LET i == CancelIndex(pf, order_id)
    IN  IF i = 0
        THEN [portfolio |-> pf, ret |-> FALSE]
        ELSE [portfolio |-> [pf EXCEPT !.orders[i].status = "cancelled"], ret |-> TRUE]

\* update_market_prices computing the profit of one share instead of the position's
update_market_prices_per_share(pf, price_data, now) ==
    [pf EXCEPT !.positions =
        [symbol \in DOMAIN pf.positions |->
            LET position == pf.positions[symbol]
            IN  IF symbol \in DOMAIN price_data
                THEN [position EXCEPT
                         !.current_price = price_data[symbol],
                         !.unrealized_pnl =
                             RSub(FromInt(price_data[symbol]), position.avg_price),
                         !.updated_at = now]
                ELSE position]]

\* update_market_prices
update_market_prices(pf, price_data, now) ==
    [pf EXCEPT !.positions =
        [symbol \in DOMAIN pf.positions |->
            LET position == pf.positions[symbol]
            IN  IF symbol \in DOMAIN price_data
                THEN [position EXCEPT
                         !.current_price = price_data[symbol],
                         !.unrealized_pnl =
                             RMul(RSub(FromInt(price_data[symbol]), position.avg_price),
                                  FromInt(position.quantity)),
                         !.updated_at = now]
                ELSE position]]

(***************************************************************************)
(* The state machine                                                       *)
(***************************************************************************)
\* what the last call was and how it ended
NoCall ==
    [op |-> "init", raised |-> FALSE, order |-> None, reads |-> <<>>,
     order_id |-> 0, ret |-> FALSE, price_data |-> <<>>]

\* what src/page_modules/trading.py can pass to place_order: a quantity of at
\* least 1, a market order without a price or a limit order with one
FormRequest(quantity, order_type, price) ==
    /\ quantity >= 1
    /\ \/ order_type = "market" /\ price = None
       \/ order_type = "limit" /\ price # None

\* the exploration budget: MaxCalls calls of any kind, MaxFormCalls form calls
Budget(form_call) ==
    \/ clock < MaxCalls
    \/ form_only /\ form_call /\ clock < MaxFormCalls

\* the sessions of the Streamlit app; they share one TradingEngine (st.cache_resource)
Sessions == {"s1", "s2"}

\* a session that is not inside place_order
Idle == [pc |-> "idle", order_id |-> 0, raised |-> ""]

\* no ConfidenceScorer call made yet
NoScore == [op |-> "init"]

\* TradingEngine(initial_cash)
Init ==
    /\ portfolio = Portfolio(InitialCash)
    /\ clock = 0
    /\ issued = 0
    /\ last = NoCall
    /\ form_only = TRUE
    /\ calls = [session \in Sessions |-> Idle]
    /\ scorer = NoScore

PlaceOrder ==
    \E symbol \in Symbols, side \in OrderSide, quantity \in Quantities,
       order_type \in OrderType, price \in LimitPrices :
       /\ Budget(FormRequest(quantity, order_type, price))
       /\ \E pv \in (IF side = "buy" /\ ~Truthy(price) THEN CurrentPrices ELSE {None}),
             pe \in (IF order_type = "market" THEN CurrentPrices ELSE {None}) :
             LET r == place_order(portfolio, issued + 1, clock + 1, symbol, side, quantity,
                                  order_type, price, None, pv, pe)
             IN  /\ portfolio' = r.portfolio
                 /\ last' = [NoCall EXCEPT !.op = "place_order", !.raised = r.raised,
                                           !.order = Some(r.order), !.reads = r.reads,
                                           !.order_id = issued + 1]
       /\ form_only' = (form_only /\ FormRequest(quantity, order_type, price))
       /\ issued' = issued + 1
       /\ clock' = clock + 1
       /\ UNCHANGED <<calls, scorer>>

CancelOrder ==
    /\ Budget(TRUE)
    /\ \E order_id \in 1 .. (issued + 1) :
          LET r == cancel_order(portfolio, order_id)
          IN  /\ portfolio' = r.portfolio
              /\ last' = [NoCall EXCEPT !.op = "cancel_order", !.order_id = order_id,
                                        !.ret = r.ret]
    /\ clock' = clock + 1
    /\ UNCHANGED <<issued, form_only, calls, scorer>>

PriceData == UNION {[S -> Prices] : S \in SUBSET Symbols}

UpdateMarketPrices ==
    /\ Budget(TRUE)
    /\ \E price_data \in PriceData :
          /\ portfolio' = update_market_prices(portfolio, price_data, clock + 1)
          /\ last' = [NoCall EXCEPT !.op = "update_market_prices", !.price_data = price_data]
    /\ clock' = clock + 1
    /\ UNCHANGED <<issued, form_only, calls, scorer>>

Next == PlaceOrder \/ CancelOrder \/ UpdateMarketPrices

Spec == Init /\ [][Next]_vars

(***************************************************************************)
(* Vocabulary of the properties                                            *)
(***************************************************************************)
\* this step is a place_order call; TheOrder is the Order object it built
Placed == clock' = clock + 1 /\ last'.op = "place_order"
TheOrder == last'.order[1]
\* _validate_order returned True: the order was appended to portfolio.orders
Accepted == Len(portfolio'.orders) = Len(portfolio.orders) + 1
\* _validate_order returned False: the call returned a REJECTED order that was never appended
RejectedAtValidation ==
    /\ Placed
    /\ ~last'.raised
    /\ TheOrder.status = "rejected"
    /\ portfolio'.orders = portfolio.orders
BuyFill == Placed /\ TheOrder.side = "buy" /\ TheOrder.status = "filled"
SellFill == Placed /\ TheOrder.side = "sell" /\ TheOrder.status = "filled"

LedgerUnchanged ==
    /\ portfolio'.cash = portfolio.cash
    /\ portfolio'.positions = portfolio.positions
    /\ portfolio'.transaction_history = portfolio.transaction_history

RECURSIVE Sum(_)
\* sum of a sequence of integers
Sum(seq) == IF seq = <<>> THEN 0 ELSE Head(seq) + Sum(Tail(seq))

\* signed notional of a transaction record: -total for a BUY, +total for a SELL
CashFlow(tx) == IF tx.side = "buy" THEN -tx.total ELSE tx.total

(***************************************************************************)
(* C1: in every reachable state portfolio.cash >= 0.                       *)
(* The code breaks it: a MARKET BUY is validated against its limit price   *)
(* (or a first price read) and filled at the price read at execution.      *)
(***************************************************************************)
C1_CashNeverNegative == portfolio.cash >= 0

(***************************************************************************)
(* C2: every Position in portfolio.positions has quantity > 0.             *)
(* The code breaks it: a BUY of quantity 0 or -1 passes validation and     *)
(* creates a position with that quantity.                                  *)
(***************************************************************************)
C2_PositionQuantitiesPositive ==
    \A symbol \in DOMAIN portfolio.positions : portfolio.positions[symbol].quantity > 0

(***************************************************************************)
(* C3: cash = initial cash - sum of BUY totals + sum of SELL totals over   *)
(* transaction_history.  The code breaks it: a BUY that brings a           *)
(* position's quantity to 0 debits the cash and then raises                *)
(* ZeroDivisionError before any transaction is recorded.                   *)
(***************************************************************************)
C3_CashConservation ==
    portfolio.cash = InitialCash + Sum([i \in 1 .. Len(portfolio.transaction_history) |->
                                          CashFlow(portfolio.transaction_history[i])])

(***************************************************************************)
(* C4: a BUY fill of q at p creates Position(q, p) on a symbol without a   *)
(* position, or sets avg_price = (old_q*old_avg + q*p)/(old_q+q) and       *)
(* quantity = old_q+q on a symbol with one, and debits cash by q*p; so     *)
(* while a symbol has had BUY fills only, avg_price * quantity is the sum  *)
(* of q_i*p_i over its fills.                                              *)
(***************************************************************************)
FilledNotional(side, symbol) ==
    LET Term(o) == IF o.status = "filled" /\ o.side = side /\ o.symbol = symbol
                   THEN o.filled_quantity * o.filled_price
                   ELSE 0
    IN  Sum([i \in 1 .. Len(portfolio'.orders) |-> Term(portfolio'.orders[i])])

OnlyBuyFills(symbol) ==
    \A i \in 1 .. Len(portfolio'.orders) :
        LET o == portfolio'.orders[i]
        IN  (o.symbol = symbol /\ o.status = "filled") => o.side = "buy"

BuyFillEffect ==
    LET s == TheOrder.symbol
        q == TheOrder.quantity
        p == TheOrder.filled_price
        new == portfolio'.positions[s]
    IN  /\ portfolio'.cash = portfolio.cash - q * p
        /\ s \in DOMAIN portfolio'.positions
        /\ IF s \in DOMAIN portfolio.positions
           THEN LET old == portfolio.positions[s]
                IN  /\ new.quantity = old.quantity + q
                    /\ new.avg_price =
                          Rat(old.quantity * old.avg_price[1] + q * p * old.avg_price[2],
                              old.avg_price[2] * (old.quantity + q))
           ELSE new.quantity = q /\ new.avg_price = <<p, 1>>
        /\ OnlyBuyFills(s) =>
              RMul(new.avg_price, FromInt(new.quantity)) = FromInt(FilledNotional("buy", s))

\* C4: every BUY fill leaves the cash, the quantity and the volume-weighted avg_price above
C4_AverageCostOnBuy == [][BuyFill => BuyFillEffect]_vars

\* a position built by two BUY fills at different prices: its average is not a whole price
C4_Witness ==
    /\ last.op = "place_order"
    /\ last.order[1].side = "buy"
    /\ last.order[1].status = "filled"
    /\ last.order[1].symbol \in DOMAIN portfolio.positions
    /\ portfolio.positions[last.order[1].symbol].avg_price[2] # 1

(***************************************************************************)
(* C5: a SELL fill of q at p against a position (qty, avg) credits cash by *)
(* q*p, removes the position exactly when qty - q = 0, and otherwise       *)
(* leaves it with quantity qty - q, the same avg_price and realized_pnl    *)
(* increased by (p - avg)*q; positions of other symbols are untouched.     *)
(***************************************************************************)
SellFillEffect ==
    LET s == TheOrder.symbol
        q == TheOrder.quantity
        p == TheOrder.filled_price
        old == portfolio.positions[s]
    IN  /\ s \in DOMAIN portfolio.positions
        /\ portfolio'.cash = portfolio.cash + q * p
        /\ (s \notin DOMAIN portfolio'.positions) <=> (old.quantity - q = 0)
        /\ s \in DOMAIN portfolio'.positions =>
              LET new == portfolio'.positions[s]
              IN  /\ new.quantity = old.quantity - q
                  /\ new.avg_price = old.avg_price
                  /\ new.realized_pnl =
                        RAdd(old.realized_pnl,
                             Rat((p * old.avg_price[2] - old.avg_price[1]) * q, old.avg_price[2]))
        /\ \A t \in Symbols \ {s} :
              /\ (t \in DOMAIN portfolio'.positions) <=> (t \in DOMAIN portfolio.positions)
              /\ t \in DOMAIN portfolio.positions =>
                    portfolio'.positions[t] = portfolio.positions[t]

\* C5: every SELL fill has exactly the effect above on cash and positions
C5_SellFillEffect == [][SellFill => SellFillEffect]_vars

\* a partial SELL fill at a profit or loss while another symbol has an open position
C5_Witness ==
    /\ last.op = "place_order"
    /\ last.order[1].side = "sell"
    /\ last.order[1].status = "filled"
    /\ last.order[1].symbol \in DOMAIN portfolio.positions
    /\ portfolio.positions[last.order[1].symbol].realized_pnl # <<0, 1>>
    /\ Cardinality(DOMAIN portfolio.positions) = 2

(***************************************************************************)
(* C6: place_order accepts a BUY iff quantity * reference_price <= cash,   *)
(* the reference price being the limit price when one is set and the       *)
(* current market price otherwise; it accepts a SELL iff the symbol has an *)
(* open position of at least the requested quantity.  Accepting is         *)
(* _validate_order returning True, after which the order is appended.      *)
(***************************************************************************)
ValidationRule ==
    LET o == TheOrder
        reference_price == IF o.price # None THEN o.price ELSE last'.reads[1]
    IN  IF o.side = "buy"
        THEN Accepted <=> /\ reference_price # None
                          /\ o.quantity * reference_price[1] <= portfolio.cash
        ELSE Accepted <=> /\ o.symbol \in DOMAIN portfolio.positions
                          /\ portfolio.positions[o.symbol].quantity >= o.quantity

\* C6: every place_order call accepts or refuses the order by the rule above
C6_ValidationRule == [][Placed => ValidationRule]_vars

\* a BUY with a limit price that the limit price makes affordable although the
\* market price read at execution does not
C6_Witness ==
    /\ last.op = "place_order"
    /\ last.order[1].side = "buy"
    /\ last.order[1].price # None
    /\ last.order[1].status = "filled"
    /\ last.order[1].filled_price > last.order[1].price[1]
    /\ portfolio.cash < 0

(***************************************************************************)
(* C7: when place_order rejects an order at validation, cash, every        *)
(* position and transaction_history are exactly as before the call.        *)
(***************************************************************************)
\* C7: a rejection at validation changes neither cash, positions nor transaction_history
C7_RejectionLeavesLedger == [][RejectedAtValidation => LedgerUnchanged]_vars

\* a BUY rejected for insufficient funds while a position is open and a
\* transaction is recorded (scenario C)
C7_Witness ==
    /\ last.op = "place_order"
    /\ ~last.raised
    /\ last.order[1].status = "rejected"
    /\ last.order[1].side = "buy"
    /\ \A i \in 1 .. Len(portfolio.orders) : portfolio.orders[i].id # last.order_id
    /\ last.order[1].symbol \in DOMAIN portfolio.positions
    /\ portfolio.transaction_history # <<>>

(***************************************************************************)
(* C8: once an order of portfolio.orders is FILLED, CANCELLED or REJECTED, *)
(* no call changes its status, filled_quantity, filled_price or filled_at; *)
(* orders keep their place in the list, and the only status change is from *)
(* PENDING to one of the three terminal statuses.                          *)
(***************************************************************************)
Terminal == {"filled", "cancelled", "rejected"}

TerminalOrdersFrozen ==
    \A i \in 1 .. Len(portfolio.orders) :
        LET old == portfolio.orders[i]
        IN  /\ i <= Len(portfolio'.orders)
            /\ portfolio'.orders[i].id = old.id
            /\ old.status \in Terminal =>
                  LET new == portfolio'.orders[i]
                  IN  /\ new.status = old.status
                      /\ new.filled_quantity = old.filled_quantity
                      /\ new.filled_price = old.filled_price
                      /\ new.filled_at = old.filled_at
            /\ portfolio'.orders[i].status # old.status =>
                  old.status = "pending" /\ portfolio'.orders[i].status \in Terminal

\* C8: no call changes an order that is FILLED, CANCELLED or REJECTED
C8_TerminalOrderImmutable == [][TerminalOrdersFrozen]_vars

\* cancel_order was called on an order that is FILLED, CANCELLED or REJECTED, and refused
C8_Witness ==
    /\ last.op = "cancel_order"
    /\ ~last.ret
    /\ \E i \in 1 .. Len(portfolio.orders) :
          /\ portfolio.orders[i].id = last.order_id
          /\ portfolio.orders[i].status \in Terminal

(***************************************************************************)
(* C9: when _get_current_price returns None, place_order returns normally  *)
(* with the order REJECTED and the ledger unchanged.                       *)
(* The code breaks it: a BUY without a limit price multiplies the quantity *)
(* by None in _validate_order, which raises TypeError.                     *)
(***************************************************************************)
PriceUnavailable ==
    /\ Placed
    /\ last'.reads # <<>>
    /\ \A i \in 1 .. Len(last'.reads) : last'.reads[i] = None

\* C9: a place_order call whose price reads all return None ends REJECTED, without raising
C9_NoPriceIsRejection ==
    [][PriceUnavailable =>
          /\ ~last'.raised
          /\ TheOrder.status = "rejected"
          /\ LedgerUnchanged]_vars

(***************************************************************************)
(* C10: place_order with quantity <= 0 yields a rejected order, leaves     *)
(* cash and positions unchanged, never fills and never raises.             *)
(* The code breaks it: _validate_order has no check of the quantity.       *)
(***************************************************************************)
\* C10: a place_order call with quantity <= 0 (prices available) ends REJECTED, ledger unchanged
C10_InvalidQuantityRejected ==
    [][(Placed /\ TheOrder.quantity <= 0 /\ last'.reads \in Seq({Some(p) : p \in Prices})) =>
          /\ ~last'.raised
          /\ TheOrder.status = "rejected"
          /\ portfolio'.cash = portfolio.cash
          /\ portfolio'.positions = portfolio.positions]_vars

(***************************************************************************)
(* SpecConc: two sessions call place_order on the engine they share.       *)
(* TradingEngine has no lock, so a call is two steps that other calls can  *)
(* come between: lines 107-131 (build the Order, _validate_order, append)  *)
(* and lines 133-138 (_execute_order).  The sessions place the MARKET      *)
(* orders of the trading form: a quantity of at least 1 and no price.      *)
(***************************************************************************)
\* place_order calls explored in one behaviour of SpecConc
MaxConcCalls == 3

\* where the order with that id is in portfolio.orders (ids are unique)
OrderIndex(pf, order_id) ==
    CHOOSE i \in 1 .. Len(pf.orders) : pf.orders[i].id = order_id

\* _execute_order on the order object of a call, which other calls may have
\* appended orders after; positions[order.symbol] of _execute_sell_order raises
\* KeyError when another call has removed the position since the validation
ExecuteShared(pf, order_id, pe, now) ==
    LET i == OrderIndex(pf, order_id)
        order == pf.orders[i]
    IN  IF ~Truthy(pe)
        THEN [portfolio |-> [pf EXCEPT !.orders[i].status = "rejected"], raised |-> ""]
        ELSE IF order.side = "sell" /\ order.symbol \notin DOMAIN pf.positions
        THEN [portfolio |-> pf, raised |-> "KeyError"]
        ELSE LET execution_price == pe[1]
                 buy == _execute_buy_order(pf, order, execution_price, now)
                 filled == [order EXCEPT !.status = "filled",
                                         !.filled_quantity = order.quantity,
                                         !.filled_price = execution_price,
                                         !.filled_at = Some(now)]
             IN  IF order.side = "buy" /\ buy.raised
                 THEN [portfolio |-> buy.portfolio, raised |-> "ZeroDivisionError"]
                 ELSE LET executed == IF order.side = "buy"
                                      THEN buy.portfolio
                                      ELSE _execute_sell_order(pf, order, execution_price, now)
                      IN  [portfolio |->
                              _record_transaction([executed EXCEPT !.orders[i] = filled],
                                                  filled, execution_price, now),
                           raised |-> ""]

\* place_order up to the append: the session is left before _execute_order when
\* the order was accepted, and outside the call when it was rejected or raised
ValidateStep(session) ==
    /\ calls[session].pc = "idle"
    /\ issued < MaxConcCalls
    /\ \E symbol \in Symbols, side \in OrderSide, quantity \in {q \in Quantities : q >= 1} :
          \E pv \in (IF side = "buy" THEN CurrentPrices ELSE {None}) :
             LET order == Order(issued + 1, symbol, side, "market", quantity, None, None,
                                clock + 1)
                 valid == _validate_order(order, portfolio, pv)
             IN  /\ portfolio' = IF valid = "True"
                                 THEN [portfolio EXCEPT !.orders = Append(@, order)]
                                 ELSE portfolio
                 /\ calls' = [calls EXCEPT ![session] =
                                 [pc |-> IF valid = "True" THEN "execute" ELSE "idle",
                                  order_id |-> issued + 1,
                                  raised |-> IF valid = "TypeError" THEN "TypeError" ELSE ""]]
    /\ issued' = issued + 1
    /\ clock' = clock + 1
    /\ UNCHANGED <<last, form_only, scorer>>

\* the rest of place_order: _execute_order on the session's order, then return
ExecuteStep(session) ==
    /\ calls[session].pc = "execute"
    /\ \E pe \in CurrentPrices :
          LET r == ExecuteShared(portfolio, calls[session].order_id, pe, clock + 1)
          IN  /\ portfolio' = r.portfolio
              /\ calls' = [calls EXCEPT ![session].pc = "idle", ![session].raised = r.raised]
    /\ clock' = clock + 1
    /\ UNCHANGED <<issued, last, form_only, scorer>>

NextConc == \E session \in Sessions : ValidateStep(session) \/ ExecuteStep(session)

SpecConc == Init /\ [][NextConc]_vars

\* the order object a session's call is working on
CallOrder(session) == portfolio.orders[OrderIndex(portfolio, calls[session].order_id)]

\* quantity of the symbol in SELL orders that passed validation and are not executed yet
InFlightSells(symbol) ==
    LET quantity(session) ==
            IF /\ calls[session].pc = "execute"
               /\ CallOrder(session).side = "sell"
               /\ CallOrder(session).symbol = symbol
            THEN CallOrder(session).quantity
            ELSE 0
    IN  quantity("s1") + quantity("s2")

\* quantity of the symbol the portfolio holds
Held(symbol) ==
    IF symbol \in DOMAIN portfolio.positions THEN portfolio.positions[symbol].quantity ELSE 0

\* quantity of the symbol bought (sold) according to the transaction history
Traded(symbol, side) ==
    Sum([i \in 1 .. Len(portfolio.transaction_history) |->
            LET tx == portfolio.transaction_history[i]
            IN  IF tx.symbol = symbol /\ tx.side = side THEN tx.quantity ELSE 0])

(***************************************************************************)
(* C11: two place_order SELL calls of two sessions never both pass         *)
(* validation against the same quantity, the quantity sold never exceeds   *)
(* the quantity held, and execution never finds the position missing.      *)
(* The code breaks it: TradingEngine has no lock around validate-then-     *)
(* execute, so both SELLs are validated before either is executed.         *)
(***************************************************************************)
\* C11: validated SELLs in flight fit the quantity held, no more is sold than bought, no KeyError
C11_SellsSerialized ==
    /\ \A symbol \in Symbols : InFlightSells(symbol) <= Held(symbol)
    /\ \A symbol \in Symbols : Traded(symbol, "sell") <= Traded(symbol, "buy")
    /\ \A session \in Sessions : calls[session].raised # "KeyError"

(***************************************************************************)
(* C12: update_market_prices(price_data) sets, for every held position     *)
(* whose symbol is in price_data, current_price to the given price and     *)
(* unrealized_pnl to (current_price - avg_price) * quantity; it leaves     *)
(* cash, every quantity, avg_price and realized_pnl, the positions whose   *)
(* symbol is not in price_data, the orders and the transaction history     *)
(* unchanged, and creates no position.                                     *)
(***************************************************************************)
Updated == clock' = clock + 1 /\ last'.op = "update_market_prices"

PriceUpdateEffect ==
    LET price_data == last'.price_data
    IN  /\ DOMAIN portfolio'.positions = DOMAIN portfolio.positions
        /\ \A symbol \in DOMAIN portfolio.positions :
              LET old == portfolio.positions[symbol]
                  new == portfolio'.positions[symbol]
              IN  IF symbol \in DOMAIN price_data
                  THEN /\ new.current_price = price_data[symbol]
                       /\ new.unrealized_pnl =
                              RMul(RSub(FromInt(price_data[symbol]), old.avg_price),
                                   FromInt(old.quantity))
                       /\ new.quantity = old.quantity
                       /\ new.avg_price = old.avg_price
                       /\ new.realized_pnl = old.realized_pnl
                  ELSE new = old
        /\ portfolio'.cash = portfolio.cash
        /\ portfolio'.orders = portfolio.orders
        /\ portfolio'.transaction_history = portfolio.transaction_history

\* C12: every update_market_prices call reprices the named positions and changes nothing else
C12_PriceUpdateFrame == [][Updated => PriceUpdateEffect]_vars

\* two positions are held and a call repriced one of them, away from its average cost
C12_Witness ==
    /\ last.op = "update_market_prices"
    /\ \E symbol \in DOMAIN portfolio.positions, other \in DOMAIN portfolio.positions :
          /\ symbol \in DOMAIN last.price_data
          /\ other \notin DOMAIN last.price_data
          /\ portfolio.positions[symbol].quantity > 1
          /\ portfolio.positions[symbol].unrealized_pnl # FromInt(0)

(***************************************************************************)
(* C13: cancel_order(order_id) returns True exactly when an order with     *)
(* that id is PENDING; that order's status then becomes CANCELLED and      *)
(* cash, positions and transaction history are unchanged; otherwise it     *)
(* returns False and nothing changes, so a second cancel of the same       *)
(* order returns False.                                                    *)
(***************************************************************************)
CancelCalled == clock' = clock + 1 /\ last'.op = "cancel_order"

PendingIndexes(pf, order_id) ==
    {i \in 1 .. Len(pf.orders) : pf.orders[i].id = order_id /\ pf.orders[i].status = "pending"}

CancelEffect ==
    LET pending == PendingIndexes(portfolio, last'.order_id)
    IN  /\ last'.ret = (pending # {})
        /\ IF last'.ret
           THEN /\ \E i \in pending :
                      portfolio'.orders = [portfolio.orders EXCEPT ![i].status = "cancelled"]
                /\ LedgerUnchanged
           ELSE portfolio' = portfolio

\* C13: cancel_order returns True iff the order is PENDING, cancels only it, else changes nothing
C13_CancelOnlyPending == [][CancelCalled => CancelEffect]_vars

\* the second cancel of an order: it is CANCELLED already, and the call returned False
C13_Witness ==
    /\ last.op = "cancel_order"
    /\ ~last.ret
    /\ \E i \in 1 .. Len(portfolio.orders) :
          /\ portfolio.orders[i].id = last.order_id
          /\ portfolio.orders[i].status = "cancelled"

(***************************************************************************)
(* C14: cancelling an order that is already terminal (FILLED, CANCELLED    *)
(* or REJECTED) fails loudly: cancel_order raises instead of doing         *)
(* nothing silently.                                                       *)
(* The code breaks it: cancel_order has no raise statement; when no        *)
(* PENDING order has the id it falls out of its loop and returns False.    *)
(***************************************************************************)
\* the order cancel_order is called on is in portfolio.orders and terminal
CancelOfTerminal ==
    /\ CancelCalled
    /\ \E i \in 1 .. Len(portfolio.orders) :
          /\ portfolio.orders[i].id = last'.order_id
          /\ portfolio.orders[i].status \in Terminal

\* C14: a cancel_order call on a terminal order raises
C14_TerminalCancelRaises == [][CancelOfTerminal => last'.raised]_vars

(***************************************************************************)
(* C15: place_order runs validation and then, if the order is accepted,    *)
(* executes it: for every order type (MARKET, LIMIT, STOP, STOP_LIMIT), an *)
(* order that passes validation while a price is available has status      *)
(* FILLED when place_order returns.                                        *)
(* As stated it fails: place_order executes MARKET orders only; an         *)
(* accepted LIMIT, STOP or STOP_LIMIT order is stored and stays PENDING    *)
(* (it is what cancel_order and the active_orders count work on).          *)
(***************************************************************************)
\* place_order accepted the order and returned, and no price read came back empty
AcceptedWithPrice ==
    /\ Placed
    /\ Accepted
    /\ ~last'.raised
    /\ \A i \in 1 .. Len(last'.reads) : last'.reads[i] # None

\* C15 as stated: an accepted order of any type is FILLED when place_order returns
C15_AcceptedOrdersFilled == [][AcceptedWithPrice => TheOrder.status = "filled"]_vars

\* C15 amended: an accepted MARKET order with a price available is FILLED when
\* place_order returns; an accepted order of another type is returned PENDING
C15_AcceptedMarketOrdersFilled ==
    [][AcceptedWithPrice =>
          IF TheOrder.order_type = "market"
          THEN TheOrder.status = "filled"
          ELSE TheOrder.status = "pending" /\ LedgerUnchanged]_vars

\* a MARKET order was just filled while an accepted order of another type is still PENDING
C15_Witness ==
    /\ last.op = "place_order"
    /\ ~last.raised
    /\ last.order[1].order_type = "market"
    /\ last.order[1].status = "filled"
    /\ \E i \in 1 .. Len(portfolio.orders) :
          /\ portfolio.orders[i].order_type # "market"
          /\ portfolio.orders[i].status = "pending"

(***************************************************************************)
(* C16: every submitted order is recorded: for every id place_order        *)
(* returns, including the id of an order rejected at validation,           *)
(* get_order(id) returns that order, with status REJECTED if it was        *)
(* rejected; and the order list is append-only.                            *)
(* The code breaks it: place_order returns the id of an order rejected by  *)
(* _validate_order before the append, so the order is stored nowhere and   *)
(* get_order(id) returns None.                                             *)
(***************************************************************************)
\* get_order: the first order of portfolio.orders with that id, or None
get_order(pf, order_id) ==
    LET hits == {i \in 1 .. Len(pf.orders) : pf.orders[i].id = order_id}
    IN  IF hits = {}
        THEN None
        ELSE Some(pf.orders[CHOOSE i \in hits : \A j \in hits : i <= j])

\* no order leaves portfolio.orders or changes its place
OrdersAppendOnly ==
    /\ Len(portfolio'.orders) >= Len(portfolio.orders)
    /\ \A i \in 1 .. Len(portfolio.orders) : portfolio'.orders[i].id = portfolio.orders[i].id

\* C16: get_order finds the order of every id place_order returned; orders are only appended
C16_SubmittedOrdersRecorded ==
    [][/\ OrdersAppendOnly
       /\ (Placed /\ ~last'.raised) =>
             get_order(portfolio', last'.order_id) = Some(TheOrder)]_vars

(***************************************************************************)
(* C17: one transaction per fill: transaction_history only grows, and in   *)
(* every reachable state it holds exactly one record for each FILLED order *)
(* (same id, side, quantity, price = the order's filled_price, total =     *)
(* quantity * price) and no record for any order that is PENDING,          *)
(* CANCELLED or REJECTED.                                                  *)
(***************************************************************************)
\* the records of transaction_history with that order id
Records(pf, order_id) ==
    {k \in 1 .. Len(pf.transaction_history) : pf.transaction_history[k].id = order_id}

OneRecordPerFill(pf) ==
    /\ \A i \in 1 .. Len(pf.orders) :
          LET order == pf.orders[i]
          IN  IF order.status = "filled"
              THEN /\ Cardinality(Records(pf, order.id)) = 1
                   /\ \A k \in Records(pf, order.id) :
                         LET tx == pf.transaction_history[k]
                         IN  /\ tx.side = order.side
                             /\ tx.quantity = order.quantity
                             /\ tx.price = order.filled_price
                             /\ tx.total = order.quantity * order.filled_price
              ELSE Records(pf, order.id) = {}
    /\ \A k \in 1 .. Len(pf.transaction_history) :
          \E i \in 1 .. Len(pf.orders) : pf.orders[i].id = pf.transaction_history[k].id

\* transaction_history keeps every record it has, in place
HistoryGrows ==
    /\ Len(portfolio'.transaction_history) >= Len(portfolio.transaction_history)
    /\ SubSeq(portfolio'.transaction_history, 1, Len(portfolio.transaction_history))
          = portfolio.transaction_history

Get(value, default) == IF value = None THEN default ELSE value[1]

\* x < y and x >= y on rationals (positive denominators)
RLess(x, y) == x[1] * y[2] < y[1] * x[2]
RAtLeast(x, y) == ~RLess(x, y)

\* self.thresholds
thresholds == [ultra_high |-> 85, high |-> 70, medium |-> 50, low |-> 30]

\* self.future_trends
future_trends ==
    [quantum_computing |-> {"IONQ", "RGTI", "QUBT", "IBM", "GOOGL", "MSFT"},
     ai_revolution |-> {"NVDA", "AMD", "MSFT", "GOOGL", "META", "PLTR", "AI", "UPST"},
     clean_energy |-> {"ENPH", "SEDG", "RUN", "PLUG", "BLDP", "FCEL", "BE"},
     space_economy |-> {"RKLB", "ASTR", "SPCE", "LMT", "NOC", "BA"},
     biotech_breakthrough |-> {"MRNA", "BNTX", "CRSP", "EDIT", "NTLA", "BEAM"},
     metaverse |-> {"META", "RBLX", "U", "NVDA", "MSFT", "AAPL"},
     cybersecurity |-> {"CRWD", "ZS", "NET", "S", "PANW", "FTNT"},
     fintech |-> {"SQ", "PYPL", "SOFI", "AFRM", "UPST", "COIN"}]

\* what a scoring method returns: {'score': ..., 'reason': ...}
ComponentScore(score, factors, default_reason) ==
    [score |-> score, reason |-> IF factors = <<>> THEN <<default_reason>> ELSE factors]

\* the points and the factor of one rule
Rule(points, factor) == [points |-> points, factors |-> <<factor>>]
NoRule == [points |-> 0, factors |-> <<>>]

Min(a, b) == IF a < b THEN a ELSE b
Max(a, b) == IF a > b THEN a ELSE b

\* _calculate_technical_confidence
_calculate_technical_confidence(analysis) ==
    LET tech == analysis.technicals
        scores == analysis.scores
        sma_20 == Get(tech.sma_20, 0)
        sma_50 == Get(tech.sma_50, 0)
        sma_200 == Get(tech.sma_200, 0)
        trend == IF sma_20 > sma_50 /\ sma_50 > sma_200
                 THEN Rule(20, "Perfect uptrend alignment")
                 ELSE IF sma_20 > sma_50
                      THEN Rule(10, "Short-term uptrend")
                      ELSE NoRule
        rsi == Get(tech.rsi, 50)
        momentum == IF 40 < rsi /\ rsi < 70
                    THEN Rule(15, "Healthy RSI momentum")
                    ELSE IF 30 < rsi /\ rsi < 40
                         THEN Rule(10, "Potential oversold bounce")
                         ELSE NoRule
        rvol == Get(analysis.rvol, FromInt(0))
        volume == IF RLess(Rat(15, 10), rvol)
                  THEN Rule(15, "Strong volume confirmation")
                  ELSE IF RLess(FromInt(1), rvol)
                       THEN Rule(8, "Above average volume")
                       ELSE NoRule
        price == Get(analysis.price, 0)
        support == Get(tech.support, 0)
        above == IF support > 0 /\ RLess(RMul(FromInt(support), Rat(102, 100)), FromInt(price))
                 THEN Rule(10, "Above key support")
                 ELSE NoRule
        pattern == IF Get(scores.swing_score, 0) > 70
                   THEN Rule(10, "High-quality pattern detected")
                   ELSE NoRule
        ai == IF Get(scores.ai_score, 0) > 80
              THEN Rule(20, "AI system highly confident")
              ELSE NoRule
        score == trend.points + momentum.points + volume.points + above.points
                 + pattern.points + ai.points
        factors == trend.factors \o momentum.factors \o volume.factors \o above.factors
                   \o pattern.factors \o ai.factors
    IN  ComponentScore(Min(score, 100), factors, "Limited technical confirmation")

\* _calculate_fundamental_confidence: [raised, score, reason]; the upside factor
\* divides the target price by the current price and raises ZeroDivisionError at 0
_calculate_fundamental_confidence(analysis) ==
    LET info == analysis.info
        pe == Get(info.forwardPE, Get(info.trailingPE, 0))
        valuation == IF 0 < pe /\ pe < 25
                     THEN Rule(10, "Reasonable valuation")
                     ELSE IF 25 <= pe /\ pe < 40
                          THEN Rule(5, "Growth premium valuation")
                          ELSE NoRule
        revenue_growth == Get(info.revenueGrowth, FromInt(0))
        revenue == IF RLess(Rat(20, 100), revenue_growth)
                   THEN Rule(15, "Strong revenue growth")
                   ELSE IF RLess(Rat(10, 100), revenue_growth)
                        THEN Rule(8, "Solid revenue growth")
                        ELSE NoRule
        profit_margin == Get(info.profitMargins, FromInt(0))
        margins == IF RLess(Rat(20, 100), profit_margin)
                   THEN Rule(15, "Excellent profit margins")
                   ELSE IF RLess(Rat(10, 100), profit_margin)
                        THEN Rule(8, "Good profit margins")
                        ELSE NoRule
        target_price == Get(info.targetMeanPrice, 0)
        current_price == Get(analysis.price, 0)
        upside == RLess(RMul(FromInt(current_price), Rat(120, 100)), FromInt(target_price))
        analysts == IF upside THEN Rule(10, "Analysts see upside") ELSE NoRule
        score == 50 + valuation.points + revenue.points + margins.points + analysts.points
        factors == valuation.factors \o revenue.factors \o margins.factors \o analysts.factors
    IN  IF upside /\ current_price = 0
        THEN [raised |-> "ZeroDivisionError"]
        ELSE [raised |-> ""]
             @@ ComponentScore(Min(score, 100), factors, "Limited fundamental data")

\* _calculate_sentiment_confidence
_calculate_sentiment_confidence(analysis) ==
    LET news == analysis.news_sentiment
        label == IF news.label = Some("Positive")
                 THEN Rule(30, "Positive news sentiment")
                 ELSE IF news.label = Some("Negative")
                      THEN Rule(-20, "Negative news sentiment")
                      ELSE NoRule
        sentiment_score == Get(news.score, FromInt(0))
        strength == IF RLess(Rat(8, 10), sentiment_score)
                    THEN Rule(20, "Very strong positive sentiment")
                    ELSE IF RLess(Rat(6, 10), sentiment_score)
                         THEN Rule(10, "Moderately positive sentiment")
                         ELSE NoRule
        score == 50 + label.points + strength.points
    IN  ComponentScore(Max(0, Min(score, 100)), label.factors \o strength.factors,
                       "Neutral sentiment")

\* _calculate_trend_alignment (ticker is upper case already)
_calculate_trend_alignment(ticker, analysis) ==
    LET aligned_trends == {trend \in DOMAIN future_trends : ticker \in future_trends[trend]}
        aligned == IF aligned_trends # {} THEN Rule(40, "Aligned with") ELSE NoRule
        multiple == IF Cardinality(aligned_trends) > 1
                    THEN Rule(20, "Multiple trend convergence")
                    ELSE NoRule
        sector == IF Get(analysis.sector_performance, 0) > 0
                  THEN Rule(20, "Strong sector momentum")
                  ELSE NoRule
        market_trend == Get(analysis.market_trend, "neutral")
        beta == Get(analysis.beta, FromInt(1))
        regime == IF market_trend = "bullish" /\ RLess(Rat(12, 10), beta)
                  THEN Rule(20, "High-beta in bull market")
                  ELSE IF market_trend = "bearish" /\ RLess(beta, Rat(8, 10))
                       THEN Rule(20, "Defensive in bear market")
                       ELSE NoRule
        score == aligned.points + multiple.points + sector.points + regime.points
    IN  ComponentScore(Min(score, 100),
                       aligned.factors \o multiple.factors \o sector.factors \o regime.factors,
                       "No clear trend alignment")

\* _get_confidence_level with strict comparisons: a boundary score falls to the lower level
_get_confidence_level_exclusive(score) ==
    IF RLess(FromInt(thresholds.ultra_high), score) THEN "ULTRA HIGH"
    ELSE IF RLess(FromInt(thresholds.high), score) THEN "HIGH"
    ELSE IF RLess(FromInt(thresholds.medium), score) THEN "MEDIUM"
    ELSE "LOW"

\* _get_confidence_level
_get_confidence_level(score) ==
    IF RAtLeast(score, FromInt(thresholds.ultra_high)) THEN "ULTRA HIGH"
    ELSE IF RAtLeast(score, FromInt(thresholds.high)) THEN "HIGH"
    ELSE IF RAtLeast(score, FromInt(thresholds.medium)) THEN "MEDIUM"
    ELSE "LOW"

\* the weighted total with the trend weight mistyped as 0.10
total_score_underweight(tech_score, fundamental_score, sentiment_score, trend_score) ==
    RAdd(RAdd(RMul(FromInt(tech_score), Rat(40, 100)),
              RMul(FromInt(fundamental_score), Rat(20, 100))),
         RAdd(RMul(FromInt(sentiment_score), Rat(20, 100)),
              RMul(FromInt(trend_score), Rat(10, 100))))

\* the weighted total with every dimension but the technical one at 0.30
total_score_overweight(tech_score, fundamental_score, sentiment_score, trend_score) ==
    RAdd(RAdd(RMul(FromInt(tech_score), Rat(40, 100)),
              RMul(FromInt(fundamental_score), Rat(30, 100))),
         RAdd(RMul(FromInt(sentiment_score), Rat(30, 100)),
              RMul(FromInt(trend_score), Rat(30, 100))))

\* total_score of calculate_confidence_score: the weighted sum of the four scores
total_score(tech_score, fundamental_score, sentiment_score, trend_score) ==
    RAdd(RAdd(RMul(FromInt(tech_score), Rat(40, 100)),
              RMul(FromInt(fundamental_score), Rat(20, 100))),
         RAdd(RMul(FromInt(sentiment_score), Rat(20, 100)),
              RMul(FromInt(trend_score), Rat(20, 100))))

\* round(x) for x >= 0: the total rounded to a whole number
Round1_whole(x) == <<(2 * x[1] + x[2]) \div (2 * x[2]), 1>>

\* round(x, 1) for x >= 0
Round1(x) == Rat((2 * 10 * x[1] + x[2]) \div (2 * x[2]), 10)

\* calculate_confidence_score with a supplemental line for the fundamental score too
calculate_confidence_score_four_lines(ticker, analysis) ==
    LET tech_score == _calculate_technical_confidence(analysis)
        fundamental_score == _calculate_fundamental_confidence(analysis)
        sentiment_score == _calculate_sentiment_confidence(analysis)
        trend_score == _calculate_trend_alignment(ticker, analysis)
        total == total_score(tech_score.score, fundamental_score.score,
                             sentiment_score.score, trend_score.score)
        headline ==
            IF RAtLeast(total, FromInt(thresholds.ultra_high)) THEN "ULTRA HIGH CONFIDENCE"
            ELSE IF RAtLeast(total, FromInt(thresholds.high)) THEN "HIGH CONFIDENCE"
            ELSE IF RAtLeast(total, FromInt(thresholds.medium)) THEN "MEDIUM CONFIDENCE"
            ELSE "LOW CONFIDENCE"
        explanations ==
            <<<<headline>>>>
            \o (IF tech_score.score > 80
                THEN <<<<"Exceptional technical setup">> \o tech_score.reason>>
                ELSE <<>>)
            \o (IF fundamental_score.score > 80
                THEN <<<<"Strong fundamentals">> \o fundamental_score.reason>>
                ELSE <<>>)
            \o (IF sentiment_score.score > 80
                THEN <<<<"Very positive sentiment">> \o sentiment_score.reason>>
                ELSE <<>>)
            \o (IF trend_score.score > 80
                THEN <<<<"Strong trend alignment">> \o trend_score.reason>>
                ELSE <<>>)
    IN  IF fundamental_score.raised # ""
        THEN [raised |-> fundamental_score.raised]
        ELSE [raised |-> "",
              total_score |-> Round1(total),
              confidence_level |-> _get_confidence_level(total),
              components |->
                  [technical |-> tech_score,
                   fundamental |-> [score |-> fundamental_score.score,
                                    reason |-> fundamental_score.reason],
                   sentiment |-> sentiment_score,
                   trend |-> trend_score],
              explanations |-> explanations]

\* calculate_confidence_score
calculate_confidence_score(ticker, analysis) ==
    LET tech_score == _calculate_technical_confidence(analysis)
        fundamental_score == _calculate_fundamental_confidence(analysis)
        sentiment_score == _calculate_sentiment_confidence(analysis)
        trend_score == _calculate_trend_alignment(ticker, analysis)
        total == total_score(tech_score.score, fundamental_score.score,
                             sentiment_score.score, trend_score.score)
        headline ==
            IF RAtLeast(total, FromInt(thresholds.ultra_high)) THEN "ULTRA HIGH CONFIDENCE"
            ELSE IF RAtLeast(total, FromInt(thresholds.high)) THEN "HIGH CONFIDENCE"
            ELSE IF RAtLeast(total, FromInt(thresholds.medium)) THEN "MEDIUM CONFIDENCE"
            ELSE "LOW CONFIDENCE"
        explanations ==
            <<<<headline>>>>
            \o (IF tech_score.score > 80
                THEN <<<<"Exceptional technical setup">> \o tech_score.reason>>
                ELSE <<>>)
            \o (IF sentiment_score.score > 80
                THEN <<<<"Very positive sentiment">> \o sentiment_score.reason>>
                ELSE <<>>)
            \o (IF trend_score.score > 80
                THEN <<<<"Strong trend alignment">> \o trend_score.reason>>
                ELSE <<>>)
    IN  IF fundamental_score.raised # ""
        THEN [raised |-> fundamental_score.raised]
        ELSE [raised |-> "",
              total_score |-> Round1(total),
              confidence_level |-> _get_confidence_level(total),
              components |->
                  [technical |-> tech_score,
                   fundamental |-> [score |-> fundamental_score.score,
                                    reason |-> fundamental_score.reason],
                   sentiment |-> sentiment_score,
                   trend |-> trend_score],
              explanations |-> explanations]

\* get_position_sizing_recommendation that forgets the multiplier in adjusted_risk
get_position_sizing_recommendation_flat(confidence_score, account_size, risk_per_trade) ==
    LET base_risk == RMul(FromInt(account_size), risk_per_trade)
        multiplier ==
            IF RAtLeast(confidence_score, FromInt(thresholds.ultra_high)) THEN Rat(15, 10)
            ELSE IF RAtLeast(confidence_score, FromInt(thresholds.high)) THEN FromInt(1)
            ELSE IF RAtLeast(confidence_score, FromInt(thresholds.medium)) THEN Rat(5, 10)
            ELSE Rat(25, 100)
        sizing_note ==
            IF RAtLeast(confidence_score, FromInt(thresholds.ultra_high))
            THEN "Increased size due to exceptional setup"
            ELSE IF RAtLeast(confidence_score, FromInt(thresholds.high))
            THEN "Standard position size"
            ELSE IF RAtLeast(confidence_score, FromInt(thresholds.medium))
            THEN "Reduced size due to mixed signals"
            ELSE "Minimal size or consider passing"
        adjusted_risk == base_risk
    IN  IF account_size = 0
        THEN [raised |-> "ZeroDivisionError"]
        ELSE [raised |-> "",
              base_risk |-> base_risk,
              adjusted_risk |-> adjusted_risk,
              multiplier |-> multiplier,
              max_position_percent |->
                  RMul(RDiv(adjusted_risk, FromInt(account_size)), FromInt(100)),
              sizing_note |-> sizing_note,
              confidence_level |-> _get_confidence_level(confidence_score)]

\* get_position_sizing_recommendation; the division by account_size raises
\* ZeroDivisionError when account_size is 0
get_position_sizing_recommendation(confidence_score, account_size, risk_per_trade) ==
    LET base_risk == RMul(FromInt(account_size), risk_per_trade)
        multiplier ==
            IF RAtLeast(confidence_score, FromInt(thresholds.ultra_high)) THEN Rat(15, 10)
            ELSE IF RAtLeast(confidence_score, FromInt(thresholds.high)) THEN FromInt(1)
            ELSE IF RAtLeast(confidence_score, FromInt(thresholds.medium)) THEN Rat(5, 10)
            ELSE Rat(25, 100)
        sizing_note ==
            IF RAtLeast(confidence_score, FromInt(thresholds.ultra_high))
            THEN "Increased size due to exceptional setup"
            ELSE IF RAtLeast(confidence_score, FromInt(thresholds.high))
            THEN "Standard position size"
            ELSE IF RAtLeast(confidence_score, FromInt(thresholds.medium))
            THEN "Reduced size due to mixed signals"
            ELSE "Minimal size or consider passing"
        adjusted_risk == RMul(base_risk, multiplier)
    IN  IF account_size = 0
        THEN [raised |-> "ZeroDivisionError"]
        ELSE [raised |-> "",
              base_risk |-> base_risk,
              adjusted_risk |-> adjusted_risk,
              multiplier |-> multiplier,
              max_position_percent |->
                  RMul(RDiv(adjusted_risk, FromInt(account_size)), FromInt(100)),
              sizing_note |-> sizing_note,
              confidence_level |-> _get_confidence_level(confidence_score)]

(***************************************************************************)
(* SpecScore: one call of a ConfidenceScorer method on inputs drawn from   *)
(* bounded sets.  The scorer keeps no state between calls, so a behaviour  *)
(* is one call; scorer records its arguments and its result.               *)
(***************************************************************************)
\* the moving averages: absent, perfect uptrend, short-term uptrend, downtrend, sma_20 alone
SmaCases ==
    {<<None, None, None>>, <<Some(3), Some(2), Some(1)>>, <<Some(3), Some(2), Some(3)>>,
     <<Some(1), Some(2), Some(3)>>, <<Some(1), None, None>>}

\* what the technical rules read (the price apart): every outcome of every rule
TechnicalSignals ==
    [sma : SmaCases,
     rsi : {None, Some(35), Some(40), Some(55)},
     rvol : {None, Some(FromInt(1)), Some(Rat(15, 10)), Some(FromInt(2))},
     support : {None, Some(100)},
     swing_score : {None, Some(70), Some(75)},
     ai_score : {None, Some(80), Some(85)}]

\* what the fundamental rules read (the price apart)
FundamentalSignals ==
    [forwardPE : {None, Some(20), Some(25), Some(40)},
     trailingPE : {None, Some(30)},
     revenueGrowth : {None, Some(Rat(10, 100)), Some(Rat(15, 100)), Some(Rat(25, 100))},
     profitMargins : {None, Some(Rat(10, 100)), Some(Rat(15, 100)), Some(Rat(25, 100))},
     targetMeanPrice : {None, Some(120), Some(130)}]

\* what the sentiment rules read
SentimentSignals ==
    [label : {None, Some("Positive"), Some("Negative"), Some("Neutral")},
     score : {None, Some(Rat(6, 10)), Some(Rat(7, 10)), Some(Rat(9, 10))}]

\* what the trend rules read: a ticker of two themes, of one theme, of none
TrendSignals ==
    [ticker : {"NVDA", "IONQ", "XYZ"},
     sector_performance : {None, Some(-1), Some(1)},
     market_trend : {None, Some("bullish"), Some("bearish")},
     beta : {None, Some(Rat(5, 10)), Some(Rat(15, 10))}]

\* analysis['price']: absent, 0, at 1.02 times the support, above it
PriceValues == {None, Some(0), Some(102), Some(103)}

\* each group of signals with every key absent, and with every rule triggered
TechnicalProfiles ==
    {[sma |-> <<None, None, None>>, rsi |-> None, rvol |-> None, support |-> None,
      swing_score |-> None, ai_score |-> None],
     [sma |-> <<Some(3), Some(2), Some(1)>>, rsi |-> Some(55), rvol |-> Some(FromInt(2)),
      support |-> Some(100), swing_score |-> Some(75), ai_score |-> Some(85)]}
FundamentalProfiles ==
    {[forwardPE |-> None, trailingPE |-> None, revenueGrowth |-> None,
      profitMargins |-> None, targetMeanPrice |-> None],
     [forwardPE |-> Some(20), trailingPE |-> None, revenueGrowth |-> Some(Rat(25, 100)),
      profitMargins |-> Some(Rat(25, 100)), targetMeanPrice |-> Some(130)]}
SentimentProfiles ==
    {[label |-> None, score |-> None],
     [label |-> Some("Positive"), score |-> Some(Rat(9, 10))]}
TrendProfiles ==
    {[ticker |-> "XYZ", sector_performance |-> None, market_trend |-> None, beta |-> None],
     [ticker |-> "NVDA", sector_performance |-> Some(1), market_trend |-> Some("bullish"),
      beta |-> Some(Rat(15, 10))]}

\* signals that give the four dimensions the same score: 60 each, and 80 each
BalancedInputs ==
    {<<[sma |-> <<Some(3), Some(2), Some(1)>>, rsi |-> Some(55), rvol |-> Some(FromInt(2)),
        support |-> None, swing_score |-> Some(75), ai_score |-> None],
       [forwardPE |-> Some(20), trailingPE |-> None, revenueGrowth |-> None,
        profitMargins |-> None, targetMeanPrice |-> None],
       [label |-> None, score |-> Some(Rat(7, 10))],
       [ticker |-> "NVDA", sector_performance |-> None, market_trend |-> None,
        beta |-> None]>>,
     <<[sma |-> <<Some(3), Some(2), Some(1)>>, rsi |-> Some(55), rvol |-> Some(FromInt(2)),
        support |-> None, swing_score |-> Some(75), ai_score |-> Some(85)],
       [forwardPE |-> None, trailingPE |-> None, revenueGrowth |-> Some(Rat(25, 100)),
        profitMargins |-> Some(Rat(25, 100)), targetMeanPrice |-> None],
       [label |-> Some("Positive"), score |-> None],
       [ticker |-> "NVDA", sector_performance |-> Some(1), market_trend |-> None,
        beta |-> None]>>}

\* the signals of the calls explored: one group takes every combination of its
\* values while the other three are absent or at their strongest; and the
\* balanced signals
ScoringInputs ==
    UNION {{<<t, f, s, r>> :
               t \in (IF focus = 1 THEN TechnicalSignals ELSE TechnicalProfiles),
               f \in (IF focus = 2 THEN FundamentalSignals ELSE FundamentalProfiles),
               s \in (IF focus = 3 THEN SentimentSignals ELSE SentimentProfiles),
               r \in (IF focus = 4 THEN TrendSignals ELSE TrendProfiles)} :
           focus \in 1 .. 4}
    \cup BalancedInputs

\* the analysis dict with these signals
Analysis(t, f, s, r, price) ==
    [technicals |-> [sma_20 |-> t.sma[1], sma_50 |-> t.sma[2], sma_200 |-> t.sma[3],
                     rsi |-> t.rsi, support |-> t.support],
     scores |-> [swing_score |-> t.swing_score, ai_score |-> t.ai_score],
     rvol |-> t.rvol,
     price |-> price,
     info |-> f,
     news_sentiment |-> s,
     sector_performance |-> r.sector_performance,
     market_trend |-> r.market_trend,
     beta |-> r.beta]

\* scores from 0 to 100 in steps of 0.1
Scores == {Rat(n, 10) : n \in 0 .. 1000}

\* account sizes and risk fractions of the sizing form (0.5% to 3%), and an empty account
AccountSizes == {0, 10000, 50000}
RiskFractions == {Rat(5, 1000), Rat(2, 100), Rat(3, 100)}

CalculateConfidenceScore ==
    /\ scorer = NoScore
    /\ \E signals \in ScoringInputs, price \in PriceValues :
          LET ticker == signals[4].ticker
              analysis == Analysis(signals[1], signals[2], signals[3], signals[4], price)
          IN  scorer' = [op |-> "calculate_confidence_score", ticker |-> ticker,
                         analysis |-> analysis,
                         result |-> calculate_confidence_score(ticker, analysis)]
    /\ UNCHANGED <<portfolio, clock, issued, last, form_only, calls>>

GetConfidenceLevel ==
    /\ scorer = NoScore
    /\ \E score \in Scores :
          scorer' = [op |-> "_get_confidence_level", score |-> score,
                     result |-> _get_confidence_level(score)]
    /\ UNCHANGED <<portfolio, clock, issued, last, form_only, calls>>

GetPositionSizingRecommendation ==
    /\ scorer = NoScore
    /\ \E confidence_score \in Scores, account_size \in AccountSizes,
          risk_per_trade \in RiskFractions :
          scorer' = [op |-> "get_position_sizing_recommendation",
                     confidence_score |-> confidence_score,
                     account_size |-> account_size,
                     risk_per_trade |-> risk_per_trade,
                     result |-> get_position_sizing_recommendation(
                                    confidence_score, account_size, risk_per_trade)]
    /\ UNCHANGED <<portfolio, clock, issued, last, form_only, calls>>

NextScore == CalculateConfidenceScore \/ GetConfidenceLevel \/ GetPositionSizingRecommendation

SpecScore == Init /\ [][NextScore]_vars

(***************************************************************************)
(* C18: for every combination of rule outcomes reachable from an analysis  *)
(* record, each of the four component scores (technical, fundamental,      *)
(* sentiment, trend) lies in [0,100] and the weighted total_score lies in  *)
(* [0,100].                                                                *)
(***************************************************************************)
\* calculate_confidence_score was called and returned
Scored == scorer.op = "calculate_confidence_score" /\ scorer.result.raised = ""

InRange(x) == RAtLeast(x, FromInt(0)) /\ RAtLeast(FromInt(100), x)

\* C18: the four component scores and the total of every returned result are in [0,100]
C18_ScoresInRange ==
    Scored =>
       /\ \A dimension \in {"technical", "fundamental", "sentiment", "trend"} :
             scorer.result.components[dimension].score \in 0 .. 100
       /\ InRange(scorer.result.total_score)
       /\ InRange(total_score(scorer.result.components.technical.score,
                              scorer.result.components.fundamental.score,
                              scorer.result.components.sentiment.score,
                              scorer.result.components.trend.score))

\* every rule of every dimension triggered: 90, 100, 100, 100 and a total of 96
C18_Witness ==
    /\ Scored
    /\ scorer.result.components.technical.score = 90
    /\ scorer.result.components.fundamental.score = 100
    /\ scorer.result.components.sentiment.score = 100
    /\ scorer.result.components.trend.score = 100
    /\ scorer.result.total_score = FromInt(96)

(***************************************************************************)
(* C19: _get_confidence_level(score) returns ULTRA HIGH when score >= 85,  *)
(* HIGH when 70 <= score < 85, MEDIUM when 50 <= score < 70 and LOW when   *)
(* score < 50, for every score in [0,100]; the boundaries 85, 70 and 50    *)
(* belong to the higher level.                                             *)
(***************************************************************************)
\* lo <= x < hi
Between(lo, x, hi) == RAtLeast(x, FromInt(lo)) /\ RLess(x, FromInt(hi))

\* C19: the level returned for every score of [0,100] is the band the score is in
C19_LevelMapping ==
    scorer.op = "_get_confidence_level" =>
       /\ (scorer.result = "ULTRA HIGH") = RAtLeast(scorer.score, FromInt(85))
       /\ (scorer.result = "HIGH") = Between(70, scorer.score, 85)
       /\ (scorer.result = "MEDIUM") = Between(50, scorer.score, 70)
       /\ (scorer.result = "LOW") = RLess(scorer.score, FromInt(50))

\* the call on a boundary score, which got the higher level
C19_Witness ==
    /\ scorer.op = "_get_confidence_level"
    /\ \/ scorer.score = FromInt(85) /\ scorer.result = "ULTRA HIGH"
       \/ scorer.score = FromInt(70) /\ scorer.result = "HIGH"
       \/ scorer.score = FromInt(50) /\ scorer.result = "MEDIUM"

(***************************************************************************)
(* C20: for account_size > 0 and risk fraction r,                          *)
(* get_position_sizing_recommendation returns base_risk = account_size*r,  *)
(* multiplier = 1.5 / 1.0 / 0.5 / 0.25 for a confidence score in the ULTRA *)
(* HIGH / HIGH / MEDIUM / LOW band, adjusted_risk = base_risk*multiplier   *)
(* and max_position_percent = adjusted_risk/account_size*100               *)
(* (= r*multiplier*100); the multiplier is non-decreasing in the score and *)
(* adjusted_risk never exceeds 1.5 * base_risk (account 10000, r = 0.02,   *)
(* score 90 gives adjusted_risk 300 and max_position_percent 3.0).         *)
(***************************************************************************)
\* get_position_sizing_recommendation was called with a positive account size
Sized == scorer.op = "get_position_sizing_recommendation" /\ scorer.account_size > 0

\* the multiplier the claim gives for the band of the score
BandMultiplier(score) ==
    IF RAtLeast(score, FromInt(85)) THEN Rat(3, 2)
    ELSE IF RAtLeast(score, FromInt(70)) THEN FromInt(1)
    ELSE IF RAtLeast(score, FromInt(50)) THEN Rat(1, 2)
    ELSE Rat(1, 4)

\* the next score up, 0.1 higher (100 for 100)
NextScoreUp(score) == IF score = FromInt(100) THEN score ELSE RAdd(score, Rat(1, 10))

\* C20: the sizing of every call with account_size > 0 is the claim's arithmetic
C20_PositionSizing ==
    Sized =>
       LET result == scorer.result
           r == scorer.risk_per_trade
           account == FromInt(scorer.account_size)
           above == get_position_sizing_recommendation(
                        NextScoreUp(scorer.confidence_score), scorer.account_size, r)
       IN  /\ result.raised = ""
           /\ result.base_risk = RMul(account, r)
           /\ result.multiplier = BandMultiplier(scorer.confidence_score)
           /\ result.adjusted_risk = RMul(result.base_risk, result.multiplier)
           /\ result.max_position_percent =
                 RMul(RDiv(result.adjusted_risk, account), FromInt(100))
           /\ result.max_position_percent = RMul(RMul(r, result.multiplier), FromInt(100))
           /\ RAtLeast(above.multiplier, result.multiplier)
           /\ RAtLeast(RMul(Rat(3, 2), result.base_risk), result.adjusted_risk)
           /\ (/\ scorer.confidence_score = FromInt(90)
               /\ scorer.account_size = 10000
               /\ r = Rat(2, 100))
              => /\ result.adjusted_risk = FromInt(300)
                 /\ result.max_position_percent = FromInt(3)

\* the claim's example: account 10000, r = 0.02, score 90
C20_Witness ==
    /\ Sized
    /\ scorer.confidence_score = FromInt(90)
    /\ scorer.account_size = 10000
    /\ scorer.risk_per_trade = Rat(2, 100)
    /\ scorer.result.adjusted_risk = FromInt(300)
    /\ scorer.result.max_position_percent = FromInt(3)

(***************************************************************************)
(* C21: the total score is technical*0.40 + fundamental*0.20 +             *)
(* sentiment*0.20 + trend*0.20 and these four aggregation weights sum to   *)
(* 1.0, so when all four component scores equal the same value x the total *)
(* equals x.                                                               *)
(***************************************************************************)
\* the four component scores of a returned result
ComponentScores ==
    [dimension \in {"technical", "fundamental", "sentiment", "trend"} |->
        scorer.result.components[dimension].score]

\* C21: the returned total is the 0.40/0.20/0.20/0.20 sum, and x when the four scores are x
C21_WeightConservation ==
    /\ RAdd(RAdd(Rat(40, 100), Rat(20, 100)), RAdd(Rat(20, 100), Rat(20, 100))) = FromInt(1)
    /\ Scored =>
          /\ scorer.result.total_score =
                RAdd(RAdd(RMul(FromInt(ComponentScores["technical"]), Rat(40, 100)),
                          RMul(FromInt(ComponentScores["fundamental"]), Rat(20, 100))),
                     RAdd(RMul(FromInt(ComponentScores["sentiment"]), Rat(20, 100)),
                          RMul(FromInt(ComponentScores["trend"]), Rat(20, 100))))
          /\ \A x \in 0 .. 100 :
                (\A dimension \in DOMAIN ComponentScores : ComponentScores[dimension] = x)
                   => scorer.result.total_score = FromInt(x)

\* a result whose four component scores are all 80, with total 80
C21_Witness ==
    /\ Scored
    /\ \A dimension \in DOMAIN ComponentScores : ComponentScores[dimension] = 80
    /\ scorer.result.total_score = FromInt(80)

(***************************************************************************)
(* C22: calculate_confidence_score returns a result without raising for    *)
(* every analysis record in which any subset of the optional fields is     *)
(* absent, including a record with no 'price' (or price 0) but with a      *)
(* positive analyst target price in 'info'.                                *)
(* The code breaks it: with the price absent or 0 and a target price above *)
(* 0 the upside rule is triggered and its message divides by the price.    *)
(***************************************************************************)
\* C22: no calculate_confidence_score call raises
C22_MissingInputsNeverRaise ==
    scorer.op = "calculate_confidence_score" => scorer.result.raised = ""

(***************************************************************************)
(* C23: a scoring rule whose input field is absent adds no points and no   *)
(* reason, so for an empty analysis record and a symbol in no theme set    *)
(* the technical score is 0, the fundamental score its baseline 50, the    *)
(* sentiment score its baseline 50 and the trend score 0.                  *)
(* The code breaks it: an absent rsi is read as 50, which triggers the     *)
(* momentum rule: 15 points and the reason "Healthy RSI momentum".         *)
(***************************************************************************)
\* the analysis record {}: every key absent
EmptyAnalysis ==
    [technicals |-> [sma_20 |-> None, sma_50 |-> None, sma_200 |-> None,
                     rsi |-> None, support |-> None],
     scores |-> [swing_score |-> None, ai_score |-> None],
     rvol |-> None,
     price |-> None,
     info |-> [forwardPE |-> None, trailingPE |-> None, revenueGrowth |-> None,
               profitMargins |-> None, targetMeanPrice |-> None],
     news_sentiment |-> [label |-> None, score |-> None],
     sector_performance |-> None,
     market_trend |-> None,
     beta |-> None]

\* C23: the empty record of a ticker of no theme scores 0, 50, 50, 0 with the default reasons
C23_AbsentInputsAddNothing ==
    (/\ scorer.op = "calculate_confidence_score"
     /\ scorer.analysis = EmptyAnalysis
     /\ \A trend \in DOMAIN future_trends : scorer.ticker \notin future_trends[trend])
    => /\ scorer.result.raised = ""
       /\ scorer.result.components.technical =
             [score |-> 0, reason |-> <<"Limited technical confirmation">>]
       /\ scorer.result.components.fundamental =
             [score |-> 50, reason |-> <<"Limited fundamental data">>]
       /\ scorer.result.components.sentiment =
             [score |-> 50, reason |-> <<"Neutral sentiment">>]
       /\ scorer.result.components.trend =
             [score |-> 0, reason |-> <<"No clear trend alignment">>]

(***************************************************************************)
(* C24: in every state reachable by place_order fills and                  *)
(* update_market_prices calls, every open position satisfies               *)
(* unrealized_pnl = (current_price - avg_price) * quantity, in particular  *)
(* right after a BUY or SELL fill that changes the position's quantity,    *)
(* avg_price or current_price.                                             *)
(* The code breaks it: _execute_buy_order and _execute_sell_order set      *)
(* quantity, avg_price and current_price and leave unrealized_pnl as it    *)
(* was; only update_market_prices computes it.                             *)
(***************************************************************************)
\* (current_price - avg_price) * quantity of a position
MarkedPnl(position) ==
    RMul(RSub(FromInt(position.current_price), position.avg_price),
         FromInt(position.quantity))

\* C24: unrealized_pnl of every open position is (current_price - avg_price) * quantity
C24_UnrealizedPnlCurrent ==
    \A symbol \in DOMAIN portfolio.positions :
       portfolio.positions[symbol].unrealized_pnl = MarkedPnl(portfolio.positions[symbol])

(***************************************************************************)
(* Portfolio properties                                                    *)
(***************************************************************************)
\* Position.market_value
market_value(position) == position.quantity * position.current_price

RECURSIVE SumMarketValue(_, _)
\* sum(pos.market_value for pos in positions.values()), over the symbols still to add
SumMarketValue(positions, symbols) ==
    IF symbols = {}
    THEN 0
    ELSE LET symbol == CHOOSE s \in symbols : TRUE
         IN  market_value(positions[symbol])
                + SumMarketValue(positions, symbols \ {symbol})

\* Portfolio.total_value
total_value(pf) == pf.cash + SumMarketValue(pf.positions, DOMAIN pf.positions)

(***************************************************************************)
(* C25: a fill only transforms cash into position value, so                *)
(* portfolio.total_value = cash + sum of quantity * current_price is the   *)
(* same immediately after a BUY or SELL fill as immediately before it,     *)
(* whatever the position's previously recorded current_price was.          *)
(* As stated it fails: the fill re-marks the whole position to the fill    *)
(* price, so the shares held before the fill change value by               *)
(* old quantity * (fill price - old current_price).                        *)
(***************************************************************************)
Fill == BuyFill \/ SellFill

\* C25 as stated: total_value is the same after a fill as before it
C25_FillPreservesTotalValue ==
    [][Fill => total_value(portfolio') = total_value(portfolio)]_vars

\* the portfolio with the position on symbol, if any, valued at price
MarkedAt(pf, symbol, price) ==
    IF symbol \in DOMAIN pf.positions
    THEN [pf EXCEPT !.positions[symbol].current_price = price]
    ELSE pf

\* C25 amended: total_value after a fill is the total_value before it with the
\* filled symbol's position valued at the fill price; it is the value before the
\* fill when no position was held or its current_price was the fill price
C25_FillPreservesMarkedValue ==
    [][Fill =>
         /\ total_value(portfolio') =
               total_value(MarkedAt(portfolio, TheOrder.symbol, TheOrder.filled_price))
         /\ (\/ TheOrder.symbol \notin DOMAIN portfolio.positions
             \/ portfolio.positions[TheOrder.symbol].current_price = TheOrder.filled_price)
            => total_value(portfolio') = total_value(portfolio)]_vars

\* a fill at price 2 on a position that was opened, and valued, at price 1
C25_Witness ==
    /\ last.op = "place_order"
    /\ ~last.raised
    /\ last.order[1].status = "filled"
    /\ last.order[1].filled_price = 2
    /\ \E i \in 1 .. Len(portfolio.orders) - 1 :
          /\ portfolio.orders[i].status = "filled"
          /\ portfolio.orders[i].symbol = last.order[1].symbol
          /\ portfolio.orders[i].side = "buy"
          /\ portfolio.orders[i].filled_price = 1
          /\ portfolio.orders[i].filled_quantity = 2
    /\ Len(portfolio.orders) = 2

(***************************************************************************)
(* get_portfolio_summary                                                   *)
(***************************************************************************)
\* Position.total_pnl
Position_total_pnl(position) == RAdd(position.unrealized_pnl, position.realized_pnl)

RECURSIVE SumTotalPnl(_, _)
\* sum(pos.total_pnl for pos in positions.values()), over the symbols still to add
SumTotalPnl(positions, symbols) ==
    IF symbols = {}
    THEN FromInt(0)
    ELSE LET symbol == CHOOSE s \in symbols : TRUE
         IN  RAdd(Position_total_pnl(positions[symbol]),
                  SumTotalPnl(positions, symbols \ {symbol}))

\* Portfolio.total_pnl: the positions still in the dict are the only ones summed
total_pnl(pf) == SumTotalPnl(pf.positions, DOMAIN pf.positions)

\* get_portfolio_summary
get_portfolio_summary(pf) ==
    LET value == FromInt(total_value(pf))
        pnl == total_pnl(pf)
    IN  [cash |-> pf.cash,
         total_value |-> total_value(pf),
         buying_power |-> pf.cash,
         total_pnl |-> pnl,
         total_return_pct |-> IF RLess(pnl, value)
                              THEN RMul(RDiv(pnl, RSub(value, pnl)), FromInt(100))
                              ELSE FromInt(0),
         positions_count |-> Cardinality(DOMAIN pf.positions),
         active_orders |-> Cardinality({i \in 1 .. Len(pf.orders) :
                                           pf.orders[i].status = "pending"})]

(***************************************************************************)
(* C26: the total_pnl of get_portfolio_summary is the sum of               *)
(* (fill_price - avg_price) * quantity over every SELL fill so far plus    *)
(* the unrealized P&L of the open positions, including the SELL fills      *)
(* that closed a position and positions that were re-opened later.         *)
(* Stated step by step: the reported total_pnl less the open positions'    *)
(* unrealized P&L starts at 0, grows by (fill_price - avg_price) *         *)
(* quantity at every SELL fill and is otherwise constant.                  *)
(* The code breaks it: Portfolio.total_pnl sums over the positions still   *)
(* held, and the SELL that closes a position deletes it together with the  *)
(* realized_pnl it carried.                                                *)
(***************************************************************************)
RECURSIVE SumUnrealized(_, _)
\* the unrealized P&L of the open positions, over the symbols still to add
SumUnrealized(positions, symbols) ==
    IF symbols = {}
    THEN FromInt(0)
    ELSE LET symbol == CHOOSE s \in symbols : TRUE
         IN  RAdd(positions[symbol].unrealized_pnl,
                  SumUnrealized(positions, symbols \ {symbol}))

\* the realized part of the reported total_pnl
ReportedRealized(pf) ==
    RSub(get_portfolio_summary(pf).total_pnl,
         SumUnrealized(pf.positions, DOMAIN pf.positions))

\* (fill_price - avg_price) * quantity of the SELL fill of this step
RealizedBySell ==
    RMul(RSub(FromInt(TheOrder.filled_price),
              portfolio.positions[TheOrder.symbol].avg_price),
         FromInt(TheOrder.filled_quantity))

\* C26: the reported total_pnl accumulates the realized P&L of every SELL fill
C26_TotalPnlKeepsRealized ==
    [][IF SellFill
       THEN ReportedRealized(portfolio') = RAdd(ReportedRealized(portfolio), RealizedBySell)
       ELSE ReportedRealized(portfolio') = ReportedRealized(portfolio)]_vars

(***************************************************************************)
(* C27: in the result of calculate_confidence_score the confidence_level   *)
(* and the headline (the first explanation) are both derived from the      *)
(* unrounded total and name the same level; and the level obtained from    *)
(* the returned one-decimal total_score, the value the page passes to      *)
(* get_position_sizing_recommendation, is that level too.                  *)
(***************************************************************************)
\* the unrounded weighted total of the component scores of the result
UnroundedTotal ==
    total_score(ComponentScores["technical"], ComponentScores["fundamental"],
                ComponentScores["sentiment"], ComponentScores["trend"])

\* the level of the band a total is in
Band(total) ==
    IF RAtLeast(total, FromInt(85)) THEN "ULTRA HIGH"
    ELSE IF Between(70, total, 85) THEN "HIGH"
    ELSE IF Between(50, total, 70) THEN "MEDIUM"
    ELSE "LOW"

\* the headline that names a level
HeadlineOf(level) ==
    CASE level = "ULTRA HIGH" -> "ULTRA HIGH CONFIDENCE"
      [] level = "HIGH" -> "HIGH CONFIDENCE"
      [] level = "MEDIUM" -> "MEDIUM CONFIDENCE"
      [] level = "LOW" -> "LOW CONFIDENCE"

\* C27: confidence_level, the headline and the level of the returned total_score
\* are all the level of the unrounded total
C27_LevelFromUnroundedTotal ==
    Scored =>
       /\ scorer.result.confidence_level = Band(UnroundedTotal)
       /\ scorer.result.explanations[1] = <<HeadlineOf(Band(UnroundedTotal))>>
       /\ _get_confidence_level(scorer.result.total_score) = scorer.result.confidence_level
       /\ \A account_size \in AccountSizes \ {0}, risk_per_trade \in RiskFractions :
             get_position_sizing_recommendation(scorer.result.total_score, account_size,
                                                risk_per_trade).confidence_level
                = scorer.result.confidence_level

\* a result whose total is within half a point below a threshold
C27_Witness ==
    /\ Scored
    /\ \E threshold \in {50, 70, 85} :
          /\ RLess(scorer.result.total_score, FromInt(threshold))
          /\ RAtLeast(scorer.result.total_score, Rat(2 * threshold - 1, 2))
          /\ scorer.result.confidence_level = Band(Rat(2 * threshold - 1, 2))

(***************************************************************************)
(* C28: the explanations of calculate_confidence_score start with exactly  *)
(* one level headline, followed by at most one supplemental line each for  *)
(* technical, sentiment and trend, in that order, a dimension's line being *)
(* present exactly when its score is > 80; the fundamental score never     *)
(* adds a line, so the list has between 1 and 4 entries.                   *)
(***************************************************************************)
Headlines ==
    {"ULTRA HIGH CONFIDENCE", "HIGH CONFIDENCE", "MEDIUM CONFIDENCE", "LOW CONFIDENCE"}

\* the dimensions that have a supplemental line, in the order of the lines
LineDimensions == <<"technical", "sentiment", "trend">>

LineLabel ==
    [technical |-> "Exceptional technical setup",
     sentiment |-> "Very positive sentiment",
     trend |-> "Strong trend alignment"]

\* C28: one headline, then the lines of the dimensions scoring > 80, in dimension order
C28_ExplanationOrder ==
    Scored =>
       LET explanations == scorer.result.explanations
           components == scorer.result.components
           Strong(dimension) == components[dimension].score > 80
           strong == SelectSeq(LineDimensions, Strong)
       IN  /\ Len(explanations) \in 1 .. 4
           /\ Len(explanations[1]) = 1
           /\ explanations[1][1] \in Headlines
           /\ \A i \in 2 .. Len(explanations) : explanations[i][1] \notin Headlines
           /\ Len(explanations) = 1 + Len(strong)
           /\ \A i \in 1 .. Len(strong) :
                 explanations[i + 1] = <<LineLabel[strong[i]]>> \o components[strong[i]].reason

\* a result with a fundamental score above 80 that got no line, and one line skipped
C28_Witness ==
    /\ Scored
    /\ scorer.result.components.fundamental.score > 80
    /\ scorer.result.components.technical.score > 80
    /\ scorer.result.components.sentiment.score <= 80
    /\ scorer.result.components.trend.score > 80
    /\ Len(scorer.result.explanations) = 3
    /\ scorer.result.explanations[3][1] = "Strong trend alignment"

(***************************************************************************)
(* C29: the PENDING orders of portfolio.orders are exactly the accepted    *)
(* LIMIT, STOP and STOP_LIMIT orders that have not been cancelled: a       *)
(* MARKET order is never PENDING once place_order is over, an order of     *)
(* another type is never FILLED and leaves PENDING only through            *)
(* cancel_order, and the active_orders of get_portfolio_summary is the     *)
(* number of these orders.                                                 *)
(* The code breaks it: a MARKET BUY that brings a position's quantity to   *)
(* 0 raises ZeroDivisionError in _execute_buy_order after the order was    *)
(* appended, and stays in the list as PENDING.                             *)
(***************************************************************************)
\* the accepted orders of the types that are not executed, not cancelled so far
OpenNonMarket(pf) ==
    {i \in 1 .. Len(pf.orders) :
        pf.orders[i].order_type # "market" /\ pf.orders[i].status # "cancelled"}

Pending(pf) == {i \in 1 .. Len(pf.orders) : pf.orders[i].status = "pending"}

PendingAreOpenNonMarket ==
    /\ Pending(portfolio) = OpenNonMarket(portfolio)
    /\ get_portfolio_summary(portfolio).active_orders = Cardinality(OpenNonMarket(portfolio))

\* a PENDING order changes status only in a cancel_order call on its id, to CANCELLED
PendingLeftByCancelOnly ==
    \A i \in Pending(portfolio) :
       portfolio'.orders[i].status # "pending" =>
          /\ CancelCalled
          /\ last'.order_id = portfolio.orders[i].id
          /\ portfolio'.orders[i].status = "cancelled"

\* C29: PENDING = accepted non-MARKET orders not cancelled, counted by active_orders
C29_PendingLifecycle == [](PendingAreOpenNonMarket) /\ [][PendingLeftByCancelOnly]_vars

(***************************************************************************)
(* C30: an order is FILLED exactly when its filled_at is set, and then its *)
(* filled_quantity is its quantity and its filled_price is the execution   *)
(* price, which is not 0; a PENDING, CANCELLED or REJECTED order has       *)
(* filled_quantity 0, filled_price 0 and no filled_at.                     *)
(***************************************************************************)
\* the fill fields of one order agree with its status
FillFields(order) ==
    /\ (order.status = "filled") = (order.filled_at # None)
    /\ order.status = "filled" =>
          /\ order.filled_quantity = order.quantity
          /\ order.filled_price # 0
    /\ order.status \in {"pending", "cancelled", "rejected"} =>
          /\ order.filled_quantity = 0
          /\ order.filled_price = 0
          /\ order.filled_at = None

\* the price a FILLED order carries is the price its fill was executed and recorded at
FilledAtExecutionPrice(pf, order) ==
    order.status = "filled" =>
       \E i \in 1 .. Len(pf.transaction_history) :
          /\ pf.transaction_history[i].id = order.id
          /\ pf.transaction_history[i].price = order.filled_price
          /\ pf.transaction_history[i].timestamp = order.filled_at[1]

\* C30: the fill fields of every order, listed or just returned, agree with its status
C30_FillFieldsMatchStatus ==
    /\ \A i \in 1 .. Len(portfolio.orders) :
          /\ FillFields(portfolio.orders[i])
          /\ FilledAtExecutionPrice(portfolio, portfolio.orders[i])
    /\ last.op = "place_order" =>
          /\ FillFields(last.order[1])
          /\ FilledAtExecutionPrice(portfolio, last.order[1])
          /\ last.order[1].status = "filled" =>
                Some(last.order[1].filled_price) = last.reads[Len(last.reads)]

\* a list with an order filled at price 2 and a cancelled order of non-zero quantity
C30_Witness ==
    \E i, j \in 1 .. Len(portfolio.orders) :
       /\ portfolio.orders[i].status = "filled"
       /\ portfolio.orders[i].filled_price = 2
       /\ portfolio.orders[i].filled_quantity = 1
       /\ portfolio.orders[j].status = "cancelled"
       /\ portfolio.orders[j].quantity = 1

====
